---- MODULE Spec2Model ----
(***************************************************************************)
(* A model of the crawl engine of webcrawler/web_crawler.py: the URL       *)
(* validator (is_valid_url), link resolution (urljoin/urlparse as the code *)
(* uses them), the extractor's link list and the crawl loop with its       *)
(* frontier (to_visit), visited set and result store (scraped_data).       *)
(***************************************************************************)
EXTENDS Integers, Sequences, FiniteSets, TLC

(***************************************************************************)
(* Bounds of the model.                                                    *)
(***************************************************************************)
\* largest max_pages a crawler is constructed with
MaxPagesBound == 3
\* largest number of <a href> elements on the pages of one crawl, all together
MaxAnchors == 4

(***************************************************************************)
(* Constants of the program.                                               *)
(***************************************************************************)
\* the heading levels extract_data looks for are 1..LastHeadingLevel
LastHeadingLevel == 6

(***************************************************************************)
(* URL strings.  A string is represented by its syntax: the text before    *)
(* the first ':' (scheme, as written, "" when there is none), whether "//" *)
(* follows (slashes), the authority text (netloc), the path, the fragment, *)
(* and whether the authority holds an unbalanced '[' (bad), the case in    *)
(* which the library's urlsplit raises ValueError.                         *)
(***************************************************************************)
Str(scheme, slashes, netloc, path, frag, bad) ==
    [scheme |-> scheme, slashes |-> slashes, netloc |-> netloc,
     path |-> path, frag |-> frag, bad |-> bad]

\* "<scheme>://<netloc><path>"
Abs(scheme, netloc, path) == Str(scheme, TRUE, netloc, path, "", FALSE)

EmptyStr == Str("", FALSE, "", "", "", FALSE)

\* the seeds a crawler is constructed with
SeedExample == Abs("https", "example.com", "")
SeedOther == Abs("http", "other.com", "/a")
Seeds == {SeedExample, SeedOther}

\* the href values a fetched page may carry
HrefPath == Str("", FALSE, "", "/a", "", FALSE)        \* "/a"
HrefFragment == Str("", FALSE, "", "", "s", FALSE)     \* "#s"
HrefOther == Abs("https", "other.com", "/a")           \* "https://other.com/a"
HrefUpper == Abs("HTTP", "example.com", "/a")          \* "HTTP://example.com/a"
HrefBad == Str("http", TRUE, "[bad", "", "", TRUE)     \* "http://[bad"
Hrefs == {HrefPath, HrefFragment, HrefOther, HrefUpper, HrefBad}

\* the strings is_valid_url is called with when it is called on its own
UrlUniverse ==
    {Abs(s, n, p) : s \in {"https", "http", "HTTP", "ftp"},
                    n \in {"example.com", "other.com", "sub.example.com"},
                    p \in {"", "/a"}}
    \cup {HrefPath, HrefBad, EmptyStr}

RECURSIVE SeqsUpTo(_, _)
SeqsUpTo(S, n) ==
    IF n = 0 THEN {<<>>}
    ELSE LET shorter == SeqsUpTo(S, n - 1)
         IN  shorter \cup {Append(s, x) : s \in {t \in shorter : Len(t) = n - 1}, x \in S}

\* element texts as get_text() returns them, and what str.strip() makes of them
Texts == {"T", " T "}
BlankText == "  "
strip(text) ==
    CASE text = " T " -> "T"
      [] text = BlankText -> ""
      [] OTHER -> text

\* a parsed page, as far as the code reads it: the texts of its <title>
\* elements, its h1..h6 elements (level and text), the texts of its <p>
\* elements, its <a href> values and its <img src> elements, each list in
\* document order
Soup(title, headings, paragraphs, anchors, images) ==
    [title |-> title, headings |-> headings, paragraphs |-> paragraphs,
     anchors |-> anchors, images |-> images]

\* the pages a crawl fetches: their anchors vary, they carry nothing else
Soups(n) == {Soup(<<>>, <<>>, <<>>, a, <<>>) : a \in SeqsUpTo(Hrefs, n)}

(***************************************************************************)
(* urllib.parse as the code calls it.                                      *)
(***************************************************************************)
Lower(s) ==
    CASE s = "HTTP" -> "http"
      [] s = "HTTPS" -> "https"
      [] OTHER -> s

\* urlparse(url): scheme is lower-cased, netloc is the text after "//"
urlparse(url) ==
    [scheme |-> Lower(url.scheme),
     netloc |-> IF url.slashes THEN url.netloc ELSE "",
     path |-> url.path,
     fragment |-> url.frag]

\* urlparse raises ValueError on these strings
ParseRaises(url) == url.bad

\* urlunparse: "//" is written when there is an authority or a scheme
Unparse(scheme, netloc, path, frag) ==
    Str(scheme, netloc # "" \/ scheme # "", netloc, path, frag, FALSE)

\* urljoin raises when one of its arguments cannot be split
JoinRaises(base, url) ==
    base # EmptyStr /\ url # EmptyStr /\ (ParseRaises(base) \/ ParseRaises(url))

\* urljoin(base, url) where it does not raise
urljoin(base, url) ==
    IF base = EmptyStr THEN url
    ELSE IF url = EmptyStr THEN base
    ELSE LET b == urlparse(base)
             u == urlparse(url)
             scheme == IF u.scheme = "" THEN b.scheme ELSE u.scheme
         IN  IF scheme # b.scheme THEN url
             ELSE IF u.netloc # "" THEN Unparse(scheme, u.netloc, u.path, u.fragment)
             ELSE IF u.path = "" THEN Unparse(scheme, b.netloc, b.path, u.fragment)
             ELSE Unparse(scheme, b.netloc, u.path, u.fragment)

\* url.startswith(('http://', 'https://')), a case-sensitive test of the text
StartsWithHttp(url) == url.scheme \in {"http", "https"} /\ url.slashes

VARIABLES
    base_url,       \* self.base_url
    max_pages,      \* self.max_pages
    delay,          \* self.delay, in tenths of a second
    args,           \* the arguments __init__ was called with
    domain,         \* self.domain
    visited_urls,   \* self.visited_urls
    to_visit,       \* self.to_visit
    scraped_data,   \* self.scraped_data
    pc,             \* where crawl() stands
    current_url,    \* crawl()'s local current_url
    call,           \* the last direct call of is_valid_url: its argument and result
    doc,            \* the parsed page extract_data is called with on its own
    extracted,      \* the last direct call of extract_data: its result
    stats,          \* the last call of get_statistics: its result
    result,         \* the value the last crawl() that returned has returned
    fetched,        \* history: the URLs get_page_content was called with, in order
    failed,         \* history: the URLs whose fetch returned None, in order
    enqueued,       \* history: the URLs appended to to_visit, in order (seed first)
    sleeps,         \* history: number of time.sleep calls
    announced       \* history: the URLs of the "Crawling:" lines printed, in order

vars == <<base_url, max_pages, delay, args, domain, visited_urls, to_visit,
          scraped_data, pc, current_url, call, doc, extracted, stats, result, fetched,
          failed, enqueued, sleeps, announced>>

config == <<base_url, max_pages, delay, args, domain>>
history == <<fetched, failed, enqueued, sleeps, announced>>
crawler == <<base_url, max_pages, delay, args, domain, visited_urls, to_visit,
             scraped_data, pc, current_url>>
\* what the calls made on the crawler leave: the results of the direct calls of
\* is_valid_url, extract_data and get_statistics and the value crawl() returned
probes == <<call, doc, extracted, stats, result>>

NoCall == [url |-> EmptyStr, ret |-> FALSE, made |-> FALSE]
NoSoup == Soup(<<>>, <<>>, <<>>, <<>>, <<>>)
\* no direct call of extract_data or get_statistics was made
NoResult == [made |-> FALSE]

\* the arguments a crawler is constructed with; delay is in tenths of a second
Delays == {1, 10}
Args == [base_url : Seeds, max_pages : (-1)..MaxPagesBound, delay : Delays]

\* mutant: the domain test is left out
is_valid_url_any_domain(url) ==
    IF ParseRaises(url) THEN FALSE
    ELSE /\ url \notin visited_urls
         /\ StartsWithHttp(url)

(***************************************************************************)
(* WebCrawler.is_valid_url                                                 *)
(***************************************************************************)
is_valid_url(url) ==
    IF ParseRaises(url) THEN FALSE
    ELSE /\ urlparse(url).netloc = domain
         /\ url \notin visited_urls
         /\ StartsWithHttp(url)

(***************************************************************************)
(* WebCrawler.extract_links and WebCrawler.extract_data                    *)
(***************************************************************************)
\* the ValueError of urljoin leaves extract_links and extract_data
ExtractRaises(soup, url) ==
    \/ \E i \in 1..Len(soup.anchors) : JoinRaises(url, soup.anchors[i])
    \/ \E i \in 1..Len(soup.images) : JoinRaises(url, soup.images[i].src)

RECURSIVE ValidLinks(_, _)
ValidLinks(anchors, current) ==
    IF anchors = <<>> THEN <<>>
    ELSE LET full_url == urljoin(current, Head(anchors))
             rest == ValidLinks(Tail(anchors), current)
         IN  IF is_valid_url(full_url) THEN <<full_url>> \o rest ELSE rest

\* mutant: every resolved link is returned, is_valid_url is not asked
extract_links_unfiltered(soup, current) ==
    [i \in 1..Len(soup.anchors) |-> urljoin(current, soup.anchors[i])]

extract_links(soup, current) == ValidLinks(soup.anchors, current)

\* soup.find_all(f'h{i}'): the elements of one level, in document order
find_all_h(soup, i) == SelectSeq(soup.headings, LAMBDA h : h.level = i)

\* mutant: the headings are listed in document order
HeadingsInDocumentOrder(soup, i) ==
    [k \in 1..Len(soup.headings) |->
        [level |-> soup.headings[k].level, text |-> strip(soup.headings[k].text)]]

\* the loop "for i in range(1, 7)" from level i on
RECURSIVE HeadingsFrom(_, _)
HeadingsFrom(soup, i) ==
    IF i > LastHeadingLevel THEN <<>>
    ELSE LET headings == find_all_h(soup, i)
         IN  [k \in 1..Len(headings) |-> [level |-> i, text |-> strip(headings[k].text)]]
             \o HeadingsFrom(soup, i + 1)

\* the paragraphs loop: texts that are empty after strip() are dropped
RECURSIVE Paragraphs(_)
Paragraphs(ps) ==
    IF ps = <<>> THEN <<>>
    ELSE LET text == strip(Head(ps))
         IN  IF text # "" THEN <<text>> \o Paragraphs(Tail(ps)) ELSE Paragraphs(Tail(ps))

\* the record of a page; a link is represented by its href, scraped_at is
\* left out
extract_data(soup, url) ==
    [url |-> url,
     title |-> IF soup.title # <<>> THEN strip(Head(soup.title)) ELSE "",
     headings |-> HeadingsFrom(soup, 1),
     paragraphs |-> Paragraphs(soup.paragraphs),
     links |-> [i \in 1..Len(soup.anchors) |-> urljoin(url, soup.anchors[i])],
     images |-> [i \in 1..Len(soup.images) |->
                    [alt |-> soup.images[i].alt, src |-> urljoin(url, soup.images[i].src)]]]

(***************************************************************************)
(* WebCrawler.__init__                                                     *)
(***************************************************************************)
\* mutant: the seed is marked visited when it is enqueued
InitSeedVisited ==
    /\ args \in Args
    /\ base_url = args.base_url
    /\ max_pages = args.max_pages
    /\ delay = args.delay
    /\ domain = urlparse(base_url).netloc
    /\ visited_urls = {base_url}
    /\ to_visit = <<base_url>>
    /\ scraped_data = <<>>
    /\ pc = "Idle"
    /\ current_url = EmptyStr
    /\ call = NoCall
    /\ doc = NoSoup
    /\ extracted = NoResult
    /\ stats = NoResult
    /\ result = NoResult
    /\ fetched = <<>>
    /\ failed = <<>>
    /\ enqueued = <<base_url>>
    /\ sleeps = 0
    /\ announced = <<>>

Init ==
    /\ args \in Args
    /\ base_url = args.base_url
    /\ max_pages = args.max_pages
    /\ delay = args.delay
    /\ domain = urlparse(base_url).netloc
    /\ visited_urls = {}
    /\ to_visit = <<base_url>>
    /\ scraped_data = <<>>
    /\ pc = "Idle"
    /\ current_url = EmptyStr
    /\ call = NoCall
    /\ doc = NoSoup
    /\ extracted = NoResult
    /\ stats = NoResult
    /\ result = NoResult
    /\ fetched = <<>>
    /\ failed = <<>>
    /\ enqueued = <<base_url>>
    /\ sleeps = 0
    /\ announced = <<>>

(***************************************************************************)
(* WebCrawler.crawl                                                        *)
(***************************************************************************)
\* mutant: the budget test admits one page too many
LoopConditionOffByOne == to_visit # <<>> /\ Cardinality(visited_urls) <= max_pages

\* the while condition
LoopCondition == to_visit # <<>> /\ Cardinality(visited_urls) < max_pages

\* mutant: crawl() starts over from the seed
CrawlStartsOver ==
    /\ pc \in {"Idle", "Done"}
    /\ pc' = "Loop"
    /\ visited_urls' = {}
    /\ to_visit' = <<base_url>>
    /\ UNCHANGED <<config, scraped_data, current_url, probes, history>>

\* a call of crawl()
Crawl ==
    /\ pc \in {"Idle", "Done"}
    /\ pc' = "Loop"
    /\ UNCHANGED <<config, visited_urls, to_visit, scraped_data, current_url, probes, history>>

\* the while condition is false: crawl() returns scraped_data
LoopExit ==
    /\ pc = "Loop"
    /\ ~LoopCondition
    /\ pc' = "Done"
    /\ result' = [made |-> TRUE, ret |-> scraped_data]
    /\ UNCHANGED <<config, visited_urls, to_visit, scraped_data, current_url, call, doc,
                   extracted, stats, history>>

\* mutant: the dequeued URL is not marked visited
DequeueNoMark ==
    /\ pc = "Loop"
    /\ to_visit # <<>> /\ Cardinality(visited_urls) < max_pages
    /\ current_url' = Head(to_visit)
    /\ to_visit' = Tail(to_visit)
    /\ IF Head(to_visit) \in visited_urls
       THEN /\ pc' = "Loop"
            /\ UNCHANGED announced
       ELSE /\ pc' = "Fetch"
            /\ announced' = Append(announced, Head(to_visit))
    /\ UNCHANGED <<config, visited_urls, scraped_data, probes, fetched, failed, enqueued,
                   sleeps>>

\* mutant: the queue is popped at its tail
DequeueLifo ==
    /\ pc = "Loop"
    /\ to_visit # <<>> /\ Cardinality(visited_urls) < max_pages
    /\ current_url' = to_visit[Len(to_visit)]
    /\ to_visit' = SubSeq(to_visit, 1, Len(to_visit) - 1)
    /\ IF to_visit[Len(to_visit)] \in visited_urls
       THEN /\ pc' = "Loop"
            /\ UNCHANGED <<visited_urls, announced>>
       ELSE /\ pc' = "Fetch"
            /\ visited_urls' = visited_urls \cup {to_visit[Len(to_visit)]}
            /\ announced' = Append(announced, to_visit[Len(to_visit)])
    /\ UNCHANGED <<config, scraped_data, probes, fetched, failed, enqueued, sleeps>>

\* mutant: the head of the queue is read and left in the queue
DequeuePeek ==
    /\ pc = "Loop"
    /\ to_visit # <<>> /\ Cardinality(visited_urls) < max_pages
    /\ current_url' = Head(to_visit)
    /\ UNCHANGED to_visit
    /\ IF Head(to_visit) \in visited_urls
       THEN /\ pc' = "Loop"
            /\ UNCHANGED <<visited_urls, announced>>
       ELSE /\ pc' = "Fetch"
            /\ visited_urls' = visited_urls \cup {Head(to_visit)}
            /\ announced' = Append(announced, Head(to_visit))
    /\ UNCHANGED <<config, scraped_data, probes, fetched, failed, enqueued, sleeps>>

\* pop(0), the visited test and visited_urls.add
Dequeue ==
    /\ pc = "Loop"
    /\ LoopCondition
    /\ current_url' = Head(to_visit)
    /\ to_visit' = Tail(to_visit)
    /\ IF Head(to_visit) \in visited_urls
       THEN /\ pc' = "Loop"
            /\ UNCHANGED <<visited_urls, announced>>
       ELSE /\ pc' = "Fetch"
            /\ visited_urls' = visited_urls \cup {Head(to_visit)}
            /\ announced' = Append(announced, Head(to_visit))
    /\ UNCHANGED <<config, scraped_data, probes, fetched, failed, enqueued, sleeps>>

\* mutant: the test "link not in self.to_visit" is left out
RECURSIVE AppendNewNoPendingTest(_, _)
AppendNewNoPendingTest(links, queue) ==
    IF links = <<>> THEN queue
    ELSE LET link == Head(links)
         IN  IF link \notin visited_urls
             THEN AppendNewNoPendingTest(Tail(links), Append(queue, link))
             ELSE AppendNewNoPendingTest(Tail(links), queue)

\* for link in new_links: if link not in visited_urls and link not in to_visit: append
RECURSIVE AppendNew(_, _)
AppendNew(links, queue) ==
    IF links = <<>> THEN queue
    ELSE LET link == Head(links)
             present == \E i \in 1..Len(queue) : queue[i] = link
         IN  IF link \notin visited_urls /\ ~present
             THEN AppendNew(Tail(links), Append(queue, link))
             ELSE AppendNew(Tail(links), queue)

\* the anchors of the pages fetched so far
RECURSIVE NumAnchors(_)
NumAnchors(data) ==
    IF data = <<>> THEN 0 ELSE Len(Head(data).links) + NumAnchors(Tail(data))

\* mutant: the record is inserted at the front of scraped_data
FetchSuccessPrepends ==
    /\ pc = "Fetch"
    /\ StartsWithHttp(current_url)
    /\ \E soup \in Soups(MaxAnchors - NumAnchors(scraped_data)) :
          IF ExtractRaises(soup, current_url)
          THEN /\ pc' = "Raised"
               /\ UNCHANGED <<scraped_data, to_visit, enqueued>>
          ELSE LET queue == AppendNew(extract_links(soup, current_url), to_visit)
               IN  /\ scraped_data' = <<extract_data(soup, current_url)>> \o scraped_data
                   /\ to_visit' = queue
                   /\ enqueued' = enqueued \o SubSeq(queue, Len(to_visit) + 1, Len(queue))
                   /\ pc' = "Sleep"
    /\ fetched' = Append(fetched, current_url)
    /\ UNCHANGED <<config, visited_urls, current_url, probes, announced, failed, sleeps>>

\* mutant: a link is marked visited when it is enqueued
FetchSuccessMarksEnqueued ==
    /\ pc = "Fetch"
    /\ StartsWithHttp(current_url)
    /\ \E soup \in Soups(MaxAnchors - NumAnchors(scraped_data)) :
          IF ExtractRaises(soup, current_url)
          THEN /\ pc' = "Raised"
               /\ UNCHANGED <<scraped_data, to_visit, enqueued, visited_urls>>
          ELSE LET queue == AppendNew(extract_links(soup, current_url), to_visit)
               IN  /\ scraped_data' = Append(scraped_data, extract_data(soup, current_url))
                   /\ to_visit' = queue
                   /\ enqueued' = enqueued \o SubSeq(queue, Len(to_visit) + 1, Len(queue))
                   /\ visited_urls' = visited_urls
                         \cup {queue[i] : i \in (Len(to_visit) + 1)..Len(queue)}
                   /\ pc' = "Sleep"
    /\ fetched' = Append(fetched, current_url)
    /\ UNCHANGED <<config, current_url, probes, announced, failed, sleeps>>

\* get_page_content returns a soup; the page is extracted and its links enqueued
FetchSuccess ==
    /\ pc = "Fetch"
    /\ StartsWithHttp(current_url)
    /\ \E soup \in Soups(MaxAnchors - NumAnchors(scraped_data)) :
          IF ExtractRaises(soup, current_url)
          THEN /\ pc' = "Raised"
               /\ UNCHANGED <<scraped_data, to_visit, enqueued>>
          ELSE LET queue == AppendNew(extract_links(soup, current_url), to_visit)
               IN  /\ scraped_data' = Append(scraped_data, extract_data(soup, current_url))
                   /\ to_visit' = queue
                   /\ enqueued' = enqueued \o SubSeq(queue, Len(to_visit) + 1, Len(queue))
                   /\ pc' = "Sleep"
    /\ fetched' = Append(fetched, current_url)
    /\ UNCHANGED <<config, visited_urls, current_url, probes, announced, failed, sleeps>>

\* mutant: a failed fetch still appends a (blank) record
FetchFailureRecords ==
    /\ pc = "Fetch"
    /\ pc' = "Sleep"
    /\ scraped_data' = Append(scraped_data, extract_data(NoSoup, current_url))
    /\ fetched' = Append(fetched, current_url)
    /\ failed' = Append(failed, current_url)
    /\ UNCHANGED <<config, visited_urls, to_visit, current_url, probes, announced, enqueued,
                   sleeps>>

\* mutant: a failed fetch puts the URL back for a retry
FetchFailureRetry ==
    /\ pc = "Fetch"
    /\ pc' = "Sleep"
    /\ visited_urls' = visited_urls \ {current_url}
    /\ to_visit' = Append(to_visit, current_url)
    /\ fetched' = Append(fetched, current_url)
    /\ failed' = Append(failed, current_url)
    /\ UNCHANGED <<config, scraped_data, current_url, probes, announced, enqueued, sleeps>>

\* mutant: a failed fetch ends the crawl
FetchFailureFatal ==
    /\ pc = "Fetch"
    /\ pc' = "Done"
    /\ fetched' = Append(fetched, current_url)
    /\ failed' = Append(failed, current_url)
    /\ UNCHANGED <<config, visited_urls, to_visit, scraped_data, current_url, probes, announced,
                   enqueued, sleeps>>

\* get_page_content returns None
FetchFailure ==
    /\ pc = "Fetch"
    /\ pc' = "Sleep"
    /\ fetched' = Append(fetched, current_url)
    /\ failed' = Append(failed, current_url)
    /\ UNCHANGED <<config, visited_urls, to_visit, scraped_data, current_url, probes, announced,
                   enqueued, sleeps>>

\* time.sleep(self.delay + random.uniform(0, 0.5))
Sleep ==
    /\ pc = "Sleep"
    /\ pc' = "Loop"
    /\ sleeps' = sleeps + 1
    /\ UNCHANGED <<config, visited_urls, to_visit, scraped_data, current_url, probes, announced,
                   fetched, failed, enqueued>>

Next == Crawl \/ LoopExit \/ Dequeue \/ FetchSuccess \/ FetchFailure \/ Sleep

Spec == Init /\ [][Next]_vars

(***************************************************************************)
(* WebCrawler.get_statistics.  A dict is a function from its keys; the     *)
(* empty dict has no key.                                                  *)
(***************************************************************************)
EmptyDict == <<>>

\* sum(...) of a sequence of numbers
RECURSIVE sum(_)
sum(ns) == IF ns = <<>> THEN 0 ELSE Head(ns) + sum(Tail(ns))

\* mutant: unique_urls counts the records
get_statistics_counting_records ==
    IF scraped_data = <<>> THEN EmptyDict
    ELSE [total_pages |-> Len(scraped_data),
          total_links |-> sum([i \in DOMAIN scraped_data |-> Len(scraped_data[i].links)]),
          total_images |-> sum([i \in DOMAIN scraped_data |-> Len(scraped_data[i].images)]),
          total_headings |-> sum([i \in DOMAIN scraped_data |-> Len(scraped_data[i].headings)]),
          total_paragraphs |->
              sum([i \in DOMAIN scraped_data |-> Len(scraped_data[i].paragraphs)]),
          unique_urls |-> Len(scraped_data)]

get_statistics ==
    IF scraped_data = <<>> THEN EmptyDict
    ELSE [total_pages |-> Len(scraped_data),
          total_links |-> sum([i \in DOMAIN scraped_data |-> Len(scraped_data[i].links)]),
          total_images |-> sum([i \in DOMAIN scraped_data |-> Len(scraped_data[i].images)]),
          total_headings |-> sum([i \in DOMAIN scraped_data |-> Len(scraped_data[i].headings)]),
          total_paragraphs |->
              sum([i \in DOMAIN scraped_data |-> Len(scraped_data[i].paragraphs)]),
          unique_urls |-> Cardinality({scraped_data[i].url : i \in DOMAIN scraped_data})]

\* stats.get(key, 0), as print_statistics reads the result
get(dict, key) == IF key \in DOMAIN dict THEN dict[key] ELSE 0

(***************************************************************************)
(* is_valid_url called on its own, as the tests do: on a crawler whose     *)
(* visited_urls was filled by hand, with any string.                       *)
(***************************************************************************)
InitValid ==
    /\ args \in Args
    /\ base_url = args.base_url
    /\ max_pages = args.max_pages
    /\ delay = args.delay
    /\ domain = urlparse(base_url).netloc
    /\ visited_urls \in SUBSET {SeedExample, Abs("https", "example.com", "/a"),
                                Abs("http", "other.com", "")}
    /\ to_visit = <<base_url>>
    /\ scraped_data = <<>>
    /\ pc = "Idle"
    /\ current_url = EmptyStr
    /\ call = NoCall
    /\ doc = NoSoup
    /\ extracted = NoResult
    /\ stats = NoResult
    /\ result = NoResult
    /\ fetched = <<>>
    /\ failed = <<>>
    /\ enqueued = <<base_url>>
    /\ sleeps = 0
    /\ announced = <<>>

IsValidUrlCall ==
    /\ \E url \in UrlUniverse :
          call' = [url |-> url, ret |-> is_valid_url(url), made |-> TRUE]
    /\ UNCHANGED <<crawler, history, doc, extracted, stats, result>>

NextValid == IsValidUrlCall

SpecValid == InitValid /\ [][NextValid]_vars

(***************************************************************************)
(* WebCrawler.__init__ called with any arguments: also with a seed that    *)
(* has no scheme and no authority ("invalid-url"), with one that urlparse  *)
(* rejects ("http://[bad") and with max_pages <= 0.  The only statement of *)
(* __init__ that depends on the arguments' values is urlparse(base_url):   *)
(* where it raises, no crawler comes into being and no method can be       *)
(* called (pc = "ConstructFailed", domain never assigned).                 *)
(***************************************************************************)
SeedNoScheme == Str("", FALSE, "", "invalid-url", "", FALSE)   \* "invalid-url"
SeedBad == Str("http", TRUE, "[bad", "", "", TRUE)             \* "http://[bad"
SeedsConfig == Seeds \cup {SeedNoScheme, SeedBad}
ArgsConfig == [base_url : SeedsConfig, max_pages : (-1)..MaxPagesBound, delay : Delays]

InitConfig ==
    /\ args \in ArgsConfig
    /\ base_url = args.base_url
    /\ max_pages = args.max_pages
    /\ delay = args.delay
    /\ visited_urls = {}
    /\ to_visit = <<base_url>>
    /\ scraped_data = <<>>
    /\ IF ParseRaises(base_url)
       THEN domain = "" /\ pc = "ConstructFailed"
       ELSE domain = urlparse(base_url).netloc /\ pc = "Idle"
    /\ current_url = EmptyStr
    /\ call = NoCall
    /\ doc = NoSoup
    /\ extracted = NoResult
    /\ stats = NoResult
    /\ result = NoResult
    /\ fetched = <<>>
    /\ failed = <<>>
    /\ enqueued = <<base_url>>
    /\ sleeps = 0
    /\ announced = <<>>

SpecConfig == InitConfig /\ [][Next]_vars

(***************************************************************************)
(* get_statistics called on its own, as the tests do: on a crawler whose   *)
(* scraped_data was assigned a list of records.                            *)
(***************************************************************************)
\* largest number of records assigned to scraped_data
MaxRecords == 3

\* a list of n items
Repeat(x, n) == [k \in 1..n |-> x]

\* a record with the given numbers of headings, paragraphs, links and images
StatRecord(url, h, p, l, i) ==
    [url |-> url,
     title |-> "T",
     headings |-> Repeat([level |-> 1, text |-> "T"], h),
     paragraphs |-> Repeat("T", p),
     links |-> Repeat(Abs("https", "example.com", "/a"), l),
     images |-> Repeat([alt |-> "T", src |-> Abs("https", "example.com", "/a")], i)]

\* the two records of test_get_statistics and a record of empty lists, each
\* under two urls
StatRecords ==
    {StatRecord(url, n[1], n[2], n[3], n[4]) :
        url \in {Abs("https", "example.com", "/a"), Abs("https", "example.com", "")},
        n \in {<<1, 2, 1, 1>>, <<2, 1, 1, 0>>, <<0, 0, 0, 0>>}}

InitStats ==
    /\ args = [base_url |-> SeedExample, max_pages |-> MaxPagesBound, delay |-> 1]
    /\ base_url = args.base_url
    /\ max_pages = args.max_pages
    /\ delay = args.delay
    /\ domain = urlparse(base_url).netloc
    /\ visited_urls = {}
    /\ to_visit = <<base_url>>
    /\ scraped_data \in SeqsUpTo(StatRecords, MaxRecords)
    /\ pc = "Idle"
    /\ current_url = EmptyStr
    /\ call = NoCall
    /\ doc = NoSoup
    /\ extracted = NoResult
    /\ stats = NoResult
    /\ result = NoResult
    /\ fetched = <<>>
    /\ failed = <<>>
    /\ enqueued = <<base_url>>
    /\ sleeps = 0
    /\ announced = <<>>

GetStatistics ==
    /\ stats' = [made |-> TRUE, ret |-> get_statistics]
    /\ UNCHANGED <<crawler, history, call, doc, extracted, result>>

NextStats == GetStatistics

SpecStats == InitStats /\ [][NextStats]_vars

(***************************************************************************)
(* extract_data called on its own, as the tests do: on a parsed page and   *)
(* its URL.                                                                *)
(***************************************************************************)
\* largest number of h1..h6 elements of a page
MaxHeadings == 3

HeadingElements == [level : 1..LastHeadingLevel, text : Texts]

\* the pages extract_data is called with: any headings, with or without a
\* title, a paragraph and a blank one, a link that resolves or one on
\* which urljoin raises, an image
Docs ==
    {Soup(title, headings, <<" T ", BlankText>>, <<href>>,
          <<[src |-> HrefPath, alt |-> "T"]>>) :
        title \in {<<>>, <<" T ">>},
        headings \in SeqsUpTo(HeadingElements, MaxHeadings),
        href \in {HrefPath, HrefBad}}

\* the URL extract_data is called with
DocUrl == Abs("https", "example.com", "/test")

InitExtract ==
    /\ args = [base_url |-> SeedExample, max_pages |-> MaxPagesBound, delay |-> 1]
    /\ base_url = args.base_url
    /\ max_pages = args.max_pages
    /\ delay = args.delay
    /\ domain = urlparse(base_url).netloc
    /\ visited_urls = {}
    /\ to_visit = <<base_url>>
    /\ scraped_data = <<>>
    /\ pc = "Idle"
    /\ current_url = EmptyStr
    /\ call = NoCall
    /\ doc \in Docs
    /\ extracted = NoResult
    /\ stats = NoResult
    /\ result = NoResult
    /\ fetched = <<>>
    /\ failed = <<>>
    /\ enqueued = <<base_url>>
    /\ sleeps = 0
    /\ announced = <<>>

ExtractData ==
    /\ extracted' = IF ExtractRaises(doc, DocUrl)
                    THEN [made |-> TRUE, raised |-> TRUE]
                    ELSE [made |-> TRUE, raised |-> FALSE, ret |-> extract_data(doc, DocUrl)]
    /\ UNCHANGED <<crawler, history, call, doc, stats, result>>

NextExtract == ExtractData

SpecExtract == InitExtract /\ [][NextExtract]_vars

(***************************************************************************)
(* Helpers of the properties.                                              *)
(***************************************************************************)
Range(seq) == {seq[i] : i \in DOMAIN seq}
NoDuplicates(seq) == \A i, j \in DOMAIN seq : i # j => seq[i] # seq[j]
Max(a, b) == IF a >= b THEN a ELSE b
\* crawl() has returned
Returned == pc = "Done"

(***************************************************************************)
(* C1: in every state of a crawl() run from a freshly constructed crawler  *)
(* with max_pages >= 1, scraped_data holds at most max_pages records,      *)
(* whatever the pages link to and whichever fetches fail.                  *)
(***************************************************************************)
C1_ResultStoreBounded == max_pages >= 1 => Len(scraped_data) <= max_pages

\* the budget binds: max_pages records are stored and URLs are still pending
C1_Witness ==
    max_pages >= 1 /\ Len(scraped_data) = max_pages /\ to_visit # <<>> /\ failed = <<>>

(***************************************************************************)
(* C2 as stated: whenever crawl() returns with to_visit still non-empty,   *)
(* scraped_data holds max_pages records.  Stated here for the crawlers     *)
(* with max_pages >= 1; on those a failed fetch already refutes it.        *)
(***************************************************************************)
C2_Original ==
    (Returned /\ to_visit # <<>> /\ max_pages >= 1) => Len(scraped_data) = max_pages

(***************************************************************************)
(* C2 amended: whenever crawl() returns with to_visit still non-empty, the *)
(* number of URLs attempted (visited_urls) is at least max_pages, exactly  *)
(* max_pages when max_pages >= 0, and scraped_data holds one record per    *)
(* attempt that did not fail: |scraped_data| = |visited_urls| - failures.  *)
(***************************************************************************)
C2_BudgetCountsAttempts ==
    (Returned /\ to_visit # <<>>) =>
        /\ Cardinality(visited_urls) >= max_pages
        /\ (max_pages >= 0 => Cardinality(visited_urls) = max_pages)
        /\ Len(scraped_data) = Cardinality(visited_urls) - Len(failed)

\* crawl() returned on the budget, URLs pending, after a failed fetch
C2_Witness ==
    Returned /\ to_visit # <<>> /\ max_pages >= 1 /\ failed # <<>> /\ scraped_data # <<>>

(***************************************************************************)
(* C3: no URL is fetched more than once.  The URLs fetched are pairwise    *)
(* distinct, visited_urls is exactly the URLs fetched plus the one about   *)
(* to be fetched, that one was not fetched before, and a URL whose fetch   *)
(* failed is never in to_visit again.                                      *)
(***************************************************************************)
C3_NoRefetch ==
    /\ NoDuplicates(fetched)
    /\ visited_urls = Range(fetched) \cup (IF pc = "Fetch" THEN {current_url} ELSE {})
    /\ pc = "Fetch" => current_url \notin Range(fetched)
    /\ \A url \in Range(failed) : url \notin Range(to_visit)

\* a page fetched after a failure links to the URL that failed
C3_Witness ==
    /\ scraped_data # <<>>
    /\ pc = "Sleep"
    /\ \E k \in DOMAIN fetched :
          /\ k < Len(fetched)
          /\ fetched[k] \in Range(failed)
          /\ scraped_data[Len(scraped_data)].url = fetched[Len(fetched)]
          /\ fetched[k] \in Range(scraped_data[Len(scraped_data)].links)

(***************************************************************************)
(* C4 as stated: when crawl() returns, the size of visited_urls equals the *)
(* number of records returned.                                             *)
(***************************************************************************)
C4_Original == Returned => Cardinality(visited_urls) = Len(scraped_data)

(***************************************************************************)
(* C4 amended: when crawl() returns, the size of visited_urls equals the   *)
(* number of records returned plus the number of fetches that failed; the  *)
(* two are equal exactly when no fetch failed.                             *)
(***************************************************************************)
C4_VisitedIsRecordsPlusFailures ==
    Returned => Cardinality(visited_urls) = Len(scraped_data) + Len(failed)

\* crawl() returned after both a successful and a failed fetch
C4_Witness == Returned /\ failed # <<>> /\ scraped_data # <<>>

(***************************************************************************)
(* C5: a URL whose network authority differs from the domain derived from  *)
(* the seed is never appended to to_visit and never fetched.               *)
(***************************************************************************)
C5_SameDomain ==
    /\ domain = urlparse(base_url).netloc
    /\ \A url \in Range(to_visit) \cup Range(enqueued) \cup Range(fetched) :
          urlparse(url).netloc = domain
    /\ pc = "Fetch" => urlparse(current_url).netloc = domain

\* a fetched page carried a link to another authority, and links were enqueued
C5_Witness ==
    /\ pc = "Sleep"
    /\ to_visit # <<>>
    /\ \E i \in DOMAIN scraped_data :
          \E url \in Range(scraped_data[i].links) : urlparse(url).netloc # domain

(***************************************************************************)
(* C6 as stated: is_valid_url returns true if and only if the URL's scheme *)
(* is http or https, its network authority equals the configured domain    *)
(* and it is not in visited_urls; for a URL that cannot be parsed it       *)
(* returns false.  Scheme and authority are those urlparse gives.          *)
(***************************************************************************)
C6_Original ==
    call.made =>
        call.ret = (/\ ~ParseRaises(call.url)
                    /\ urlparse(call.url).scheme \in {"http", "https"}
                    /\ urlparse(call.url).netloc = domain
                    /\ call.url \notin visited_urls)

(***************************************************************************)
(* C7: a fetch failure is never fatal.  The step in which a fetch fails    *)
(* appends no record and no link: scraped_data and to_visit are left as    *)
(* they were and the loop goes on to its delay; and crawl() never returns  *)
(* while URLs are pending and the budget is not reached.                   *)
(***************************************************************************)
C7_FailureNotFatal ==
    /\ [][failed' # failed =>
            /\ pc = "Fetch" /\ pc' = "Sleep"
            /\ failed' = Append(failed, current_url)
            /\ scraped_data' = scraped_data
            /\ to_visit' = to_visit
            /\ enqueued' = enqueued]_vars
    /\ [][pc = "Sleep" => pc' = "Loop"]_vars
    /\ [](Returned => (to_visit = <<>> \/ Cardinality(visited_urls) >= max_pages))

\* after a failed fetch a later pending URL was dequeued and fetched with success
C7_Witness ==
    /\ pc = "Sleep"
    /\ fetched # <<>>
    /\ fetched[Len(fetched)] \notin Range(failed)
    /\ \E k \in DOMAIN fetched : k < Len(fetched) /\ fetched[k] \in Range(failed)

(***************************************************************************)
(* C8 as stated: every crawl() run ends in Done, whatever the pages link   *)
(* to and whichever fetches fail, after at most max_pages fetch attempts.  *)
(* A run that has stopped has returned; the count is stated for the        *)
(* crawlers with max_pages >= 1.                                           *)
(***************************************************************************)
C8_Original ==
    /\ Returned \/ ENABLED Next
    /\ max_pages >= 1 => Len(fetched) <= max_pages

(***************************************************************************)
(* C9 as stated: Done is entered exactly when to_visit is empty or         *)
(* |visited_urls| = max_pages: no URL can be dequeued in a state where     *)
(* either holds, and when crawl() has returned at least one of them holds. *)
(***************************************************************************)
C9_Original ==
    /\ ENABLED Dequeue => (to_visit # <<>> /\ Cardinality(visited_urls) # max_pages)
    /\ Returned => (to_visit = <<>> \/ Cardinality(visited_urls) = max_pages)

(***************************************************************************)
(* C10: traversal is FIFO breadth-first.  The URLs are fetched in the      *)
(* order in which they were first appended to to_visit, the seed first;    *)
(* to_visit is always the not yet dequeued tail of that order; a page's    *)
(* new links are appended at the tail in the page's document order; and    *)
(* the records of scraped_data are in the order their pages were fetched.  *)
(***************************************************************************)
Dequeued == Len(fetched) + (IF pc = "Fetch" THEN 1 ELSE 0)

\* the URLs whose fetch produced a record, in fetch order
Succeeded ==
    LET Ok(url) == url \notin Range(failed)
        done == IF pc = "Raised" THEN SubSeq(fetched, 1, Len(fetched) - 1) ELSE fetched
    IN  SelectSeq(done, Ok)

RECURSIVE IsSubsequence(_, _)
\* a is b with some elements left out
IsSubsequence(a, b) ==
    IF a = <<>> THEN TRUE
    ELSE IF b = <<>> THEN FALSE
    ELSE IF Head(a) = Head(b) THEN IsSubsequence(Tail(a), Tail(b))
    ELSE IsSubsequence(a, Tail(b))

C10_Order ==
    /\ enqueued[1] = base_url
    /\ Dequeued <= Len(enqueued)
    /\ \A i \in DOMAIN fetched : fetched[i] = enqueued[i]
    /\ pc = "Fetch" => current_url = enqueued[Dequeued]
    /\ to_visit = SubSeq(enqueued, Dequeued + 1, Len(enqueued))
    /\ [i \in DOMAIN scraped_data |-> scraped_data[i].url] = Succeeded

C10_Append ==
    enqueued' # enqueued =>
        /\ Len(enqueued') > Len(enqueued)
        /\ SubSeq(enqueued', 1, Len(enqueued)) = enqueued
        /\ Len(scraped_data') = Len(scraped_data) + 1
        /\ to_visit' = to_visit \o SubSeq(enqueued', Len(enqueued) + 1, Len(enqueued'))
        /\ IsSubsequence(SubSeq(enqueued', Len(enqueued) + 1, Len(enqueued')),
                         scraped_data'[Len(scraped_data')].links)

C10_Fifo == [](C10_Order) /\ [][C10_Append]_vars

\* a page's two new links were fetched, in their document order, after it
C10_Witness ==
    /\ Len(fetched) >= 3
    /\ Len(scraped_data) >= 2
    /\ scraped_data[1].url = base_url
    /\ IsSubsequence(<<fetched[2], fetched[3]>>, scraped_data[1].links)
    /\ fetched[2] # fetched[3]

(***************************************************************************)
(* C11: the scenario of a crawler constructed on "https://example.com"     *)
(* with max_pages = 2 whose fetches all succeed and whose seed page        *)
(* carries three links, two to http(s) URLs of the seed's domain and one   *)
(* to another domain.  The external link is never appended to to_visit,    *)
(* every visited URL is on the seed's domain, and when crawl() returns     *)
(* exactly 2 pages were visited and fetched.                               *)
(***************************************************************************)
C11_Internal(link) == urlparse(link).netloc = domain /\ StartsWithHttp(link)
C11_External(link) == urlparse(link).netloc # domain

C11_Scenario ==
    /\ base_url = SeedExample
    /\ max_pages = 2
    /\ failed = <<>>
    /\ scraped_data # <<>>
    /\ LET links == scraped_data[1].links
       IN  /\ Len(links) = 3
           /\ Cardinality({i \in DOMAIN links : C11_Internal(links[i])}) = 2
           /\ Cardinality({i \in DOMAIN links : C11_External(links[i])}) = 1

C11_TwoPagesScenario ==
    C11_Scenario =>
        /\ \A i \in DOMAIN scraped_data[1].links :
              C11_External(scraped_data[1].links[i])
                  => scraped_data[1].links[i] \notin Range(enqueued)
        /\ \A url \in visited_urls : urlparse(url).netloc = domain
        /\ Cardinality(visited_urls) <= 2
        /\ Returned => (Cardinality(visited_urls) = 2 /\ Len(fetched) = 2
                         /\ Len(scraped_data) = 2)

\* crawl() has returned in the scenario, a link of the seed page left pending
C11_Witness ==
    /\ C11_Scenario
    /\ Returned
    /\ Len(scraped_data) = 2
    /\ to_visit # <<>>

(***************************************************************************)
(* C12 as stated: a crawler constructed with a seed that has no scheme or  *)
(* no authority (or cannot be parsed), or with max_pages <= 0, fails at    *)
(* construction, so that from such arguments no URL is ever dequeued or    *)
(* fetched.  The code validates nothing: the initial state with            *)
(* max_pages = 0 is a constructed crawler, and with the seed "invalid-url" *)
(* and max_pages >= 1 crawl() dequeues the seed and attempts its fetch.    *)
(***************************************************************************)
C12_BadConfig ==
    \/ max_pages <= 0
    \/ ParseRaises(base_url)
    \/ urlparse(base_url).scheme = ""
    \/ urlparse(base_url).netloc = ""

C12_Original ==
    C12_BadConfig => (pc = "ConstructFailed" /\ visited_urls = {} /\ fetched = <<>>)

(***************************************************************************)
(* C13 as stated: in every state of a crawl() run the urls of the records  *)
(* of scraped_data are exactly the URLs whose fetch has succeeded so far,  *)
(* one record each, none for a URL whose fetch failed, and total_pages of  *)
(* get_statistics is the number of successful fetches.  It fails where the *)
(* fetch of a page succeeded and extract_data raised on one of its links   *)
(* (C8): crawl() is left with the page fetched and no record of it.        *)
(***************************************************************************)
\* the URLs for which get_page_content returned a page, in fetch order
C13_FetchSucceeded == SelectSeq(fetched, LAMBDA url : url \notin Range(failed))

C13_Original ==
    /\ [i \in DOMAIN scraped_data |-> scraped_data[i].url] = C13_FetchSucceeded
    /\ \A i \in DOMAIN scraped_data : scraped_data[i].url \notin Range(failed)
    /\ get(get_statistics, "total_pages") = Len(C13_FetchSucceeded)

\* the claim holds wherever crawl() was not left by an exception
C13_ExceptWhereRaised == pc # "Raised" => C13_Original

(***************************************************************************)
(* C14: get_statistics returns, for a non-empty scraped_data, exactly the  *)
(* six keys with total_pages the number of records, total_links,           *)
(* total_images, total_headings and total_paragraphs the numbers of items  *)
(* of these lists over all records, and unique_urls the number of distinct *)
(* record urls; for an empty scraped_data it returns the empty dict (every *)
(* key reads 0); and it leaves scraped_data as it was.                     *)
(***************************************************************************)
\* the number of (record, item) pairs of one list of the records
C14_Items(Field(_)) ==
    Cardinality(UNION {{<<i, j>> : j \in DOMAIN Field(scraped_data[i])} :
                          i \in DOMAIN scraped_data})
C14_Links(r) == r.links
C14_Images(r) == r.images
C14_Headings(r) == r.headings
C14_Paragraphs(r) == r.paragraphs
\* the records whose url no earlier record has
C14_FirstOfUrl ==
    {i \in DOMAIN scraped_data : \A j \in 1..(i - 1) : scraped_data[j].url # scraped_data[i].url}

C14_Result ==
    stats.made =>
        IF scraped_data = <<>>
        THEN /\ stats.ret = EmptyDict
             /\ \A key \in {"total_pages", "total_links", "total_images", "total_headings",
                             "total_paragraphs", "unique_urls"} : get(stats.ret, key) = 0
        ELSE /\ DOMAIN stats.ret = {"total_pages", "total_links", "total_images",
                                    "total_headings", "total_paragraphs", "unique_urls"}
             /\ stats.ret.total_pages = Len(scraped_data)
             /\ stats.ret.total_links = C14_Items(C14_Links)
             /\ stats.ret.total_images = C14_Items(C14_Images)
             /\ stats.ret.total_headings = C14_Items(C14_Headings)
             /\ stats.ret.total_paragraphs = C14_Items(C14_Paragraphs)
             /\ stats.ret.unique_urls = Cardinality(C14_FirstOfUrl)

C14_Statistics == [](C14_Result) /\ [][scraped_data' = scraped_data]_vars

\* the call of test_get_statistics has returned
C14_Witness ==
    /\ stats.made
    /\ Len(scraped_data) = 2
    /\ stats.ret.total_pages = 2
    /\ stats.ret.total_links = 2
    /\ stats.ret.total_images = 1
    /\ stats.ret.total_headings = 3
    /\ stats.ret.total_paragraphs = 3
    /\ stats.ret.unique_urls = 2

(***************************************************************************)
(* C15: a freshly constructed crawler is Idle with to_visit = [base_url],  *)
(* visited_urls and scraped_data empty and domain the authority (netloc)   *)
(* of the seed; base_url, max_pages and delay are the arguments given.     *)
(***************************************************************************)
C15_FreshCrawler ==
    pc = "Idle" =>
        /\ base_url = args.base_url
        /\ max_pages = args.max_pages
        /\ delay = args.delay
        /\ to_visit = <<args.base_url>>
        /\ visited_urls = {}
        /\ scraped_data = <<>>
        /\ domain = urlparse(args.base_url).netloc
        /\ fetched = <<>>

\* the crawler of the tests' setUp, with the default delay
C15_Witness ==
    /\ pc = "Idle"
    /\ args = [base_url |-> SeedExample, max_pages |-> MaxPagesBound, delay |-> 10]
    /\ domain = "example.com"

(***************************************************************************)
(* C16: the headings of the record extract_data returns are the page's     *)
(* h1..h6 elements grouped by level 1..6 and, within a level, in document  *)
(* order, each as {level, text stripped}: the list is as long as the page  *)
(* has heading elements, its levels never decrease, and for every level    *)
(* its entries of that level are the page's elements of that level in      *)
(* their order.                                                            *)
(***************************************************************************)
C16_OfLevel(headings, level) == SelectSeq(headings, LAMBDA h : h.level = level)

C16_HeadingsByLevel ==
    (extracted.made /\ ~extracted.raised) =>
        LET headings == extracted.ret.headings
        IN  /\ Len(headings) = Len(doc.headings)
            /\ \A k \in 1..(Len(headings) - 1) : headings[k].level <= headings[k + 1].level
            /\ \A level \in 1..LastHeadingLevel :
                  LET got == C16_OfLevel(headings, level)
                      elements == C16_OfLevel(doc.headings, level)
                  IN  /\ Len(got) = Len(elements)
                      /\ \A k \in DOMAIN got :
                            got[k] = [level |-> level, text |-> strip(elements[k].text)]
            /\ \A k \in DOMAIN headings :
                  /\ headings[k].level \in 1..LastHeadingLevel
                  /\ headings[k].text \notin {" T ", BlankText}

\* a page whose h2 comes before its h1: the record lists the h1 first
C16_Witness ==
    /\ extracted.made
    /\ ~extracted.raised
    /\ Len(doc.headings) = MaxHeadings
    /\ doc.headings[1] = [level |-> 2, text |-> " T "]
    /\ doc.headings[2] = [level |-> 1, text |-> "T"]
    /\ extracted.ret.headings[1] = [level |-> 1, text |-> "T"]
    /\ extracted.ret.headings[2] = [level |-> 2, text |-> "T"]

(***************************************************************************)
(* C17: in every state no URL is both in to_visit and in visited_urls.     *)
(***************************************************************************)
C17_PendingVisitedDisjoint == Range(to_visit) \cap visited_urls = {}

\* a fetched page links to a visited URL of the domain while URLs are pending
C17_Witness ==
    /\ pc = "Sleep"
    /\ to_visit # <<>>
    /\ scraped_data # <<>>
    /\ \E link \in Range(scraped_data[Len(scraped_data)].links) :
          /\ link \in visited_urls
          /\ urlparse(link).netloc = domain
          /\ StartsWithHttp(link)

(***************************************************************************)
(* C18: in every state to_visit holds no URL twice, also when a page       *)
(* carries the same link several times and when several pages carry it.    *)
(***************************************************************************)
C18_PendingNoDuplicates == NoDuplicates(to_visit)

\* a URL is pending that the page just fetched links to twice, or that this
\* page and an earlier page both link to
C18_Witness ==
    /\ pc = "Sleep"
    /\ Len(scraped_data) >= 2
    /\ LET last == scraped_data[Len(scraped_data)].links
       IN  /\ \E i, j \in DOMAIN last : i # j /\ last[i] = last[j] /\ last[i] \in Range(to_visit)
           /\ \E k \in 1..(Len(scraped_data) - 1) :
                 Range(scraped_data[k].links) \cap Range(last) \cap Range(to_visit) # {}

(***************************************************************************)
(* C19: visited_urls only grows, and only by the step that dequeues a URL  *)
(* not yet visited: that step adds exactly the dequeued URL, once, before  *)
(* get_page_content is called with it.  Appending a link to to_visit does  *)
(* not mark it.  Every fetched URL is in visited_urls.                     *)
(***************************************************************************)
C19_Step ==
    /\ visited_urls \subseteq visited_urls'
    /\ visited_urls' # visited_urls =>
          /\ pc = "Loop" /\ pc' = "Fetch"
          /\ to_visit # <<>>
          /\ Head(to_visit) \notin visited_urls
          /\ visited_urls' = visited_urls \cup {Head(to_visit)}
          /\ to_visit' = Tail(to_visit)
          /\ current_url' = Head(to_visit)
          /\ fetched' = fetched
    /\ (to_visit # <<>> /\ to_visit' = Tail(to_visit)) => Head(to_visit) \in visited_urls'
    /\ fetched' # fetched =>
          /\ fetched' = Append(fetched, current_url)
          /\ current_url \in visited_urls
          /\ current_url \notin Range(fetched)
    /\ \A i \in (Len(enqueued) + 1)..Len(enqueued') : enqueued'[i] \notin visited_urls'

C19_MarkedAtDequeue ==
    /\ [][C19_Step]_vars
    /\ [](Range(fetched) \subseteq visited_urls)
    /\ [](Range(to_visit) \cap visited_urls = {})

\* a URL was dequeued and marked, its fetch is not yet issued, and links
\* enqueued by an earlier page are pending, unmarked
C19_Witness ==
    /\ pc = "Fetch"
    /\ current_url \in visited_urls
    /\ current_url \notin Range(fetched)
    /\ Len(fetched) >= 1
    /\ to_visit # <<>>
    /\ Range(to_visit) \subseteq Range(enqueued) \ visited_urls

(***************************************************************************)
(* C20 as stated: every fetch attempt, successful or not, is followed by   *)
(* one time.sleep before the next dequeue: whenever crawl() is not between *)
(* an attempt and its sleep, the number of sleeps equals the number of     *)
(* attempts, and between the two it is one less.  It fails where the fetch *)
(* succeeded and extract_data raised (C8): crawl() is left with an attempt *)
(* that no sleep follows.                                                  *)
(***************************************************************************)
C20_Original ==
    IF pc = "Sleep"
    THEN sleeps = Len(fetched) - 1
    ELSE sleeps = Len(fetched)

\* the claim holds wherever crawl() was not left by an exception
C20_ExceptWhereRaised == pc # "Raised" => C20_Original

(***************************************************************************)
(* C21: in a crawl() run of a freshly constructed crawler every pop(0) is  *)
(* followed by one "Crawling:" line and one call of get_page_content for   *)
(* the popped URL: the popped head is never in visited_urls, the branch    *)
(* "continue" is never taken, the lines printed are as many as the URLs    *)
(* popped and name the URLs fetched, in order.                             *)
(***************************************************************************)
\* the number of pop(0) so far: what was appended and is no longer queued
C21_Popped == Len(enqueued) - Len(to_visit)

C21_Step ==
    (pc = "Loop" /\ pc' # "Done") =>
        /\ Head(to_visit) \notin visited_urls
        /\ to_visit' = Tail(to_visit)
        /\ pc' = "Fetch"
        /\ announced' = Append(announced, Head(to_visit))
        /\ current_url' = Head(to_visit)

C21_OneNotificationPerDequeue ==
    /\ [][C21_Step]_vars
    /\ [](Len(announced) = C21_Popped)
    /\ [](announced = fetched \o (IF pc = "Fetch" THEN <<current_url>> ELSE <<>>))

\* a second URL was popped and announced after a fetched page linked to a
\* URL already visited
C21_Witness ==
    /\ pc = "Fetch"
    /\ Len(announced) = 2
    /\ scraped_data # <<>>
    /\ Range(scraped_data[1].links) \cap visited_urls # {}

(***************************************************************************)
(* C22: scraped_data is empty before crawl() is called, and every step of  *)
(* a run either leaves it as it is or appends one record at its end (the   *)
(* record of the URL just fetched): no record is removed, moved or         *)
(* changed.                                                                *)
(***************************************************************************)
C22_Step ==
    \/ scraped_data' = scraped_data
    \/ /\ pc = "Fetch"
       /\ Len(scraped_data') = Len(scraped_data) + 1
       /\ SubSeq(scraped_data', 1, Len(scraped_data)) = scraped_data
       /\ scraped_data'[Len(scraped_data')].url = current_url

C22_AppendOnly ==
    /\ [](pc = "Idle" => scraped_data = <<>>)
    /\ [][C22_Step]_vars

\* a record was appended behind a record that differs from it
C22_Witness ==
    /\ pc = "Sleep"
    /\ Len(scraped_data) >= 2
    /\ scraped_data[Len(scraped_data)].links # scraped_data[1].links
    /\ failed # <<>>

(***************************************************************************)
(* C23: once a crawl() has returned, a further call of crawl() finds the   *)
(* while condition false: it pops and fetches nothing, prints no           *)
(* "Crawling:" line, sleeps never, leaves visited_urls, to_visit and       *)
(* scraped_data as they were, and returns the sequence of records the      *)
(* earlier call returned.                                                  *)
(***************************************************************************)
C23_Step ==
    result.made =>
        /\ visited_urls' = visited_urls
        /\ to_visit' = to_visit
        /\ scraped_data' = scraped_data
        /\ fetched' = fetched
        /\ failed' = failed
        /\ enqueued' = enqueued
        /\ announced' = announced
        /\ sleeps' = sleeps
        /\ result' = result
        /\ pc' \in {"Loop", "Done"}

C23_DoneIsTerminal ==
    /\ [][C23_Step]_vars
    /\ [](result.made => /\ result.ret = scraped_data
                          /\ pc \in {"Loop", "Done"}
                          /\ ~LoopCondition)

\* crawl() is called again after a run that stopped at the page budget with
\* URLs pending
C23_Witness ==
    /\ pc = "Loop"
    /\ result.made
    /\ to_visit # <<>>
    /\ scraped_data # <<>>
    /\ failed # <<>>

(***************************************************************************)
(* C24 as stated: with max_pages >= 1, in every state of a crawl() run     *)
(* visited_urls holds at most max_pages URLs, at most max_pages fetches    *)
(* were attempted, and (outside the iteration that is fetching a URL) the  *)
(* records are as many as the visited URLs less the failed fetches.  The   *)
(* count of records fails where the fetch succeeded and extract_data       *)
(* raised (C8): the URL is visited, its fetch did not fail, and it has no  *)
(* record.                                                                 *)
(***************************************************************************)
C24_Original ==
    max_pages >= 1 =>
        /\ Cardinality(visited_urls) <= max_pages
        /\ Len(fetched) <= max_pages
        /\ pc # "Fetch" => Len(scraped_data) = Cardinality(visited_urls) - Len(failed)

\* the claim holds wherever crawl() was not left by an exception
C24_ExceptWhereRaised == pc # "Raised" => C24_Original

(***************************************************************************)
(* C25: in a crawl() run of a freshly constructed crawler no two records   *)
(* of scraped_data have the same url, so that get_statistics, called when  *)
(* the run is over, gives unique_urls equal to total_pages (both keys are  *)
(* absent, read as 0, when there is no record).                            *)
(***************************************************************************)
C25_UniqueRecordUrls ==
    /\ \A i, j \in DOMAIN scraped_data :
          i # j => scraped_data[i].url # scraped_data[j].url
    /\ get(get_statistics, "unique_urls") = get(get_statistics, "total_pages")
    /\ scraped_data # <<>> =>
          /\ {"unique_urls", "total_pages"} \subseteq DOMAIN get_statistics
          /\ get_statistics.unique_urls = Len(scraped_data)

\* crawl() has returned with several records, one of a page that links to
\* a page recorded before it
C25_Witness ==
    /\ Returned
    /\ Len(scraped_data) >= 2
    /\ get_statistics.unique_urls = Len(scraped_data)
    /\ \E i, j \in DOMAIN scraped_data :
          i < j /\ scraped_data[i].url \in Range(scraped_data[j].links)

(***************************************************************************)
(* C26 as stated: when crawl() has returned with fewer than max_pages URLs *)
(* visited (to_visit is empty), every link of every record whose scheme is *)
(* http or https and whose authority is the domain is in visited_urls.  It *)
(* fails for a link written with an upper-case scheme, which is_valid_url  *)
(* rejects (C6): "HTTP://example.com/a" is an http URL of the domain, is   *)
(* linked from a fetched page and is never attempted.                      *)
(***************************************************************************)
C26_Exhausted == Returned /\ Cardinality(visited_urls) < max_pages

C26_Original ==
    C26_Exhausted =>
        /\ to_visit = <<>>
        /\ \A i \in DOMAIN scraped_data : \A link \in Range(scraped_data[i].links) :
              (urlparse(link).scheme \in {"http", "https"} /\ urlparse(link).netloc = domain)
                  => link \in visited_urls

\* the claim holds for the links whose text starts with http:// or https://
C26_ExceptUpperCaseScheme ==
    C26_Exhausted =>
        /\ to_visit = <<>>
        /\ \A i \in DOMAIN scraped_data : \A link \in Range(scraped_data[i].links) :
              (StartsWithHttp(link) /\ urlparse(link).netloc = domain)
                  => link \in visited_urls
====
